---- MODULE Spec2Model ----
(***************************************************************************)
(* Excel analytics dashboard: the upload pipeline (FileUpload and          *)
(* Dashboard), the chart configuration (ChartGenerator) and the data       *)
(* preview (DataPreview), as a state machine over the React state of the   *)
(* four components.                                                        *)
(*                                                                         *)
(* Conventions.  Sequences are 1-based: IndexOf returns 0 where the        *)
(* source's indexOf returns -1.  JavaScript null for a message is the      *)
(* string Null.  A cell of the sheet is a record [t, n, s, b] whose tag t  *)
(* is the runtime type of the JavaScript value; strings are sequences of   *)
(* one-character strings, so that parsing is computed.  A header name is   *)
(* a string, "" standing for a header cell that is missing (falsy).        *)
(***************************************************************************)
EXTENDS Integers, Sequences, FiniteSets, TLC

VARIABLES
    \* FileUpload
    isLoading, uploadError, uploadProgress, timers, inFlight, file, failure, lastDrop,
    \* Dashboard
    uploadedData, uploadHistory, currentFileName, isProcessing, dashError, now,
    \* ChartGenerator
    xAxis, yAxis, chartType, chartError,
    \* DataPreview
    showAllRows, searchTerm, sortColumn, sortDirection, filteredAndSortedData,
    \* argument and result of a function applied on its own
    arg, ret

fileUploadVars == <<isLoading, uploadError, uploadProgress, timers, inFlight, file, failure, lastDrop>>
dashboardVars == <<uploadedData, uploadHistory, currentFileName, isProcessing, dashError, now>>
chartVars == <<xAxis, yAxis, chartType, chartError>>
previewVars == <<showAllRows, searchTerm, sortColumn, sortDirection, filteredAndSortedData>>
callVars == <<arg, ret>>
vars == <<fileUploadVars, dashboardVars, chartVars, previewVars, callVars>>

----------------------------------------------------------------------------
(* Bounds of the model *)

MaxCols == 2
MaxDataRows == 1
MaxChartRows == 2
MaxStrLen == 3
MaxTimers == 2
MaxInFlight == 2
MaxUploads == 2
MaxTermLen == 2
MaxLongRows == 11
MaxHistoryUploads == 7

----------------------------------------------------------------------------
(* Values *)

Null == "null"
NoFile == [size |-> 0, type |-> "", name |-> "", codec |-> "none", json |-> <<>>]
NoData == [loaded |-> FALSE, headers |-> <<>>, data |-> <<>>]
NoCall == [t |-> "none", n |-> 0, s |-> <<>>, b |-> FALSE]

Num(n) == [t |-> "number", n |-> n, s |-> <<>>, b |-> FALSE]
Str(s) == [t |-> "string", n |-> 0, s |-> s, b |-> FALSE]
Bool(b) == [t |-> "boolean", n |-> 0, s |-> <<>>, b |-> b]
NullCell == [t |-> "null", n |-> 0, s |-> <<>>, b |-> FALSE]
Undefined == [t |-> "undefined", n |-> 0, s |-> <<>>, b |-> FALSE]

Range(s) == {s[i] : i \in 1..Len(s)}

SeqsUpTo(S, n) == UNION {[1..k -> S] : k \in 0..n}

\* row[i] of a JavaScript array: undefined beyond the end
At(row, i) == IF i \in 1..Len(row) THEN row[i] ELSE Undefined

\* s.slice(0, n)
Take(s, n) == SubSeq(s, 1, IF n < Len(s) THEN n ELSE Len(s))

IndexOf(s, v) ==
    IF \E i \in 1..Len(s) : s[i] = v
    THEN CHOOSE i \in 1..Len(s) : s[i] = v /\ \A j \in 1..(i - 1) : s[j] # v
    ELSE 0

----------------------------------------------------------------------------
(* Number(val) and the numeric test of the Y column (ChartGenerator) *)

Digits == {"0", "1", "2", "3", "4", "5", "6", "7", "8", "9"}
WhiteSpace == {" "}

RECURSIVE TrimLeft(_)
TrimLeft(s) == IF s # <<>> /\ Head(s) \in WhiteSpace THEN TrimLeft(Tail(s)) ELSE s

RECURSIVE TrimRight(_)
TrimRight(s) ==
    IF s # <<>> /\ s[Len(s)] \in WhiteSpace THEN TrimRight(SubSeq(s, 1, Len(s) - 1)) ELSE s

AllDigits(s) == \A i \in 1..Len(s) : s[i] \in Digits

\* StrUnsignedDecimalLiteral without exponent: digits, digits. , .digits , digits.digits
UnsignedDecimal(s) ==
    \/ s # <<>> /\ AllDigits(s)
    \/ \E p \in 1..Len(s) :
          /\ s[p] = "."
          /\ AllDigits(SubSeq(s, 1, p - 1))
          /\ AllDigits(SubSeq(s, p + 1, Len(s)))
          /\ Len(s) > 1

SignedDecimal(s) ==
    \/ UnsignedDecimal(s)
    \/ s # <<>> /\ Head(s) \in {"+", "-"} /\ UnsignedDecimal(Tail(s))

\* Number(string) is NaN: the trimmed string is neither empty (which is 0) nor a
\* decimal literal.  Exact for strings that hold no exponent, no radix prefix and
\* not the word Infinity, which is the case of every string of the model.
StringToNumberIsNaN(s) ==
    LET t == TrimRight(TrimLeft(s)) IN t # <<>> /\ ~SignedDecimal(t)

\* isNaN(Number(val)): Number(true) = 1, Number(false) = 0, Number(null) = 0,
\* Number(undefined) = NaN.  A number cell of a sheet is never NaN.
NumberIsNaN(val) ==
    CASE val.t = "number" -> FALSE
      [] val.t = "string" -> StringToNumberIsNaN(val.s)
      [] val.t = "boolean" -> FALSE
      [] val.t = "null" -> FALSE
      [] OTHER -> TRUE

IsNumericY(val) == ~NumberIsNaN(val) /\ val # NullCell /\ val # Str(<<>>)

numericYValues(yValues) == SelectSeq(yValues, IsNumericY)

----------------------------------------------------------------------------
(* FileUpload: validation and decoding in processExcelFile *)

maxSize == 10 * 1024 * 1024

XlsxType == "application/vnd.openxmlformats-officedocument.spreadsheetml.sheet"
XlsType == "application/vnd.ms-excel"
allowedTypes == {XlsxType, XlsType}

\* Validate with the type checked before the size
Validate_TypeFirst(f) ==
    IF f.type \notin allowedTypes THEN "UnsupportedType"
    ELSE IF f.size > maxSize THEN "SizeExceeded"
    ELSE "Ok"

\* Validate without the size check
Validate_NoSizeCheck(f) ==
    IF f.type \notin allowedTypes THEN "UnsupportedType" ELSE "Ok"

\* The throw reached by the two checks, or Ok
Validate(f) ==
    IF f.size > maxSize THEN "SizeExceeded"
    ELSE IF f.type \notin allowedTypes THEN "UnsupportedType"
    ELSE "Ok"

\* Decode without the check for data rows
Decode_NoDataRowCheck(jsonData) ==
    IF Len(jsonData) = 0
    THEN [failure |-> "EmptyWorkbook", excelData |-> NoData]
    ELSE IF Len(jsonData[1]) = 0
    THEN [failure |-> "NoHeaders", excelData |-> NoData]
    ELSE [failure |-> "None",
          excelData |-> [loaded |-> TRUE, headers |-> jsonData[1],
                         data |-> SubSeq(jsonData, 2, Len(jsonData))]]

\* The throw reached on the raw matrix of the first sheet, or the ExcelData built
Decode(jsonData) ==
    IF Len(jsonData) = 0
    THEN [failure |-> "EmptyWorkbook", excelData |-> NoData]
    ELSE LET headers == jsonData[1]
             data == SubSeq(jsonData, 2, Len(jsonData))
         IN  IF Len(headers) = 0
             THEN [failure |-> "NoHeaders", excelData |-> NoData]
             ELSE IF Len(data) = 0
             THEN [failure |-> "NoDataRows", excelData |-> NoData]
             ELSE [failure |-> "None",
                   excelData |-> [loaded |-> TRUE, headers |-> headers, data |-> data]]

LibraryMessage == "codec error"

ThrownMessage(kind) ==
    CASE kind = "SizeExceeded" -> "File size exceeds 10MB limit"
      [] kind = "UnsupportedType" -> "Please upload a valid Excel file (.xlsx or .xls)"
      [] kind = "EmptyWorkbook" -> "The Excel file appears to be empty"
      [] kind = "NoHeaders" -> "No headers found in the Excel file"
      [] kind = "NoDataRows" -> "No data rows found in the Excel file"
      [] kind = "CodecError" -> LibraryMessage
      [] OTHER -> "Failed to process the Excel file"

RejectionMessage(code) ==
    IF code = "file-too-large" THEN "File size exceeds 10MB limit"
    ELSE IF code = "file-invalid-type" THEN "Please upload a valid Excel file (.xlsx or .xls)"
    ELSE "File upload failed. Please try again."

----------------------------------------------------------------------------
(* ChartGenerator *)

ChartTypes == {"bar", "line", "scatter", "pie", "bar3d", "scatter3d"}

NoNumericMessage == "Selected Y-axis column contains no numeric data"

NoTrace == [type |-> "null"]

Falsy(name) == name = ""

\* A ChartGenerator without the effect
AutoSelect_Never(headers, xA, yA) == [xAxis |-> xA, yAxis |-> yA]

\* The effect that selects the first two columns; it runs after every render whose
\* headers, xAxis or yAxis changed
AutoSelect(headers, xA, yA) ==
    IF Len(headers) >= 2 /\ Falsy(xA) /\ Falsy(yA)
    THEN [xAxis |-> headers[1], yAxis |-> headers[2]]
    ELSE [xAxis |-> xA, yAxis |-> yA]

\* Column that leaves out the rows that end before the column
Column_DefinedOnly(data, index) ==
    LET long == SelectSeq(data, LAMBDA row : index <= Len(row))
    IN  [i \in 1..Len(long) |-> long[i][index]]

Column(data, index) == [i \in 1..Len(data) |-> At(data[i], index)]

Marker(color, colorValues, scaled) ==
    [color |-> color, colorValues |-> colorValues, showscale |-> scaled]

TraceOf(cType, xValues, yValues, name) ==
    CASE cType = "bar" ->
           [x |-> xValues, y |-> yValues, name |-> name, type |-> "bar", mode |-> "",
            marker |-> Marker("rgba(59, 130, 246, 0.8)", <<>>, FALSE)]
      [] cType = "line" ->
           [x |-> xValues, y |-> yValues, name |-> name, type |-> "scatter",
            mode |-> "lines+markers", marker |-> Marker("rgba(34, 197, 94, 1)", <<>>, FALSE)]
      [] cType = "scatter" ->
           [x |-> xValues, y |-> yValues, name |-> name, type |-> "scatter",
            mode |-> "markers", marker |-> Marker("rgba(168, 85, 247, 0.8)", <<>>, FALSE)]
      [] cType = "pie" ->
           [labels |-> xValues, values |-> yValues, type |-> "pie"]
      [] cType = "bar3d" ->
           [x |-> xValues, y |-> yValues, name |-> name, type |-> "bar", mode |-> "",
            marker |-> Marker("Viridis", yValues, TRUE)]
      [] cType = "scatter3d" ->
           [x |-> xValues, y |-> yValues, name |-> name, type |-> "scatter3d",
            mode |-> "markers", marker |-> Marker("Viridis", yValues, TRUE)]
      [] OTHER -> [x |-> xValues, y |-> yValues, name |-> name]

\* chartData with the numeric check left out for pie
chartData_PieExempt(data, headers, xA, yA, cType) ==
    IF Falsy(xA) \/ Falsy(yA) \/ Len(data) = 0
    THEN [exit |-> "MissingAxis", trace |-> NoTrace, setError |-> Null]
    ELSE LET xIndex == IndexOf(headers, xA)
             yIndex == IndexOf(headers, yA)
         IN  IF xIndex = 0 \/ yIndex = 0
             THEN [exit |-> "ColumnNotFound", trace |-> NoTrace, setError |-> Null]
             ELSE LET xValues == Column(data, xIndex)
                      yValues == Column(data, yIndex)
                  IN  IF cType # "pie" /\ Len(numericYValues(yValues)) = 0
                      THEN [exit |-> "NoNumericData", trace |-> NoTrace,
                            setError |-> NoNumericMessage]
                      ELSE [exit |-> "Ok",
                            trace |-> TraceOf(cType, xValues, yValues, yA \o " vs " \o xA),
                            setError |-> Null]

\* The chartData memo: where it returns (exit), what it returns (trace, NoTrace for
\* null) and the message it hands to setError (Null when it calls no setError)
chartData(data, headers, xA, yA, cType) ==
    IF Falsy(xA) \/ Falsy(yA) \/ Len(data) = 0
    THEN [exit |-> "MissingAxis", trace |-> NoTrace, setError |-> Null]
    ELSE LET xIndex == IndexOf(headers, xA)
             yIndex == IndexOf(headers, yA)
         IN  IF xIndex = 0 \/ yIndex = 0
             THEN [exit |-> "ColumnNotFound", trace |-> NoTrace, setError |-> Null]
             ELSE LET xValues == Column(data, xIndex)
                      yValues == Column(data, yIndex)
                  IN  IF Len(numericYValues(yValues)) = 0
                      THEN [exit |-> "NoNumericData", trace |-> NoTrace,
                            setError |-> NoNumericMessage]
                      ELSE [exit |-> "Ok",
                            trace |-> TraceOf(cType, xValues, yValues, yA \o " vs " \o xA),
                            setError |-> Null]

\* layout with the two names of the title in the other order
layout_TitleSwapped(xA, yA) ==
    [title |-> [text |-> xA \o " vs " \o yA], xaxis |-> [title |-> xA],
     yaxis |-> [title |-> yA]]

\* The layout handed to the chart, for every chart type: the text of its title and
\* the titles of its two axes (fonts, colours and margins are left out)
layout(xA, yA) ==
    [title |-> [text |-> yA \o " vs " \o xA], xaxis |-> [title |-> xA],
     yaxis |-> [title |-> yA]]

\* The state of ChartGenerator once a render with (xA, yA, cType, err) has settled:
\* the auto-select effect has run and the memo has been computed for its result
Settled(store, xA, yA, cType, err) ==
    LET sel == AutoSelect(store.headers, xA, yA)
        built == chartData(store.data, store.headers, sel.xAxis, sel.yAxis, cType)
    IN  [xAxis |-> sel.xAxis, yAxis |-> sel.yAxis, chartType |-> cType,
         error |-> IF built.setError # Null THEN built.setError ELSE err]

ChartIs(c) ==
    /\ xAxis' = c.xAxis
    /\ yAxis' = c.yAxis
    /\ chartType' = c.chartType
    /\ chartError' = c.error

\* A ChartGenerator that stays mounted, and keeps its state, while no store is loaded
ChartKept == [xAxis |-> xAxis, yAxis |-> yAxis, chartType |-> chartType, error |-> chartError]

\* The state a ChartGenerator is mounted with (useState initial values); the model
\* keeps it in the chart variables while no ChartGenerator is mounted
ChartUnmounted == [xAxis |-> "", yAxis |-> "", chartType |-> "bar", error |-> Null]

\* The chart shown now
currentChart == chartData(uploadedData.data, uploadedData.headers, xAxis, yAxis, chartType)

\* The layout of the chart shown now
currentLayout == layout(xAxis, yAxis)

setXAxis(h) ==
    /\ uploadedData.loaded
    /\ h \in Range(uploadedData.headers) /\ ~Falsy(h)
    /\ h # xAxis
    /\ ChartIs(Settled(uploadedData, h, yAxis, chartType, chartError))
    /\ UNCHANGED <<fileUploadVars, dashboardVars, previewVars, callVars>>

setYAxis(h) ==
    /\ uploadedData.loaded
    /\ h \in Range(uploadedData.headers) /\ ~Falsy(h)
    /\ h # yAxis
    /\ ChartIs(Settled(uploadedData, xAxis, h, chartType, chartError))
    /\ UNCHANGED <<fileUploadVars, dashboardVars, previewVars, callVars>>

setChartType(t) ==
    /\ uploadedData.loaded
    /\ t # chartType
    /\ ChartIs(Settled(uploadedData, xAxis, yAxis, t, chartError))
    /\ UNCHANGED <<fileUploadVars, dashboardVars, previewVars, callVars>>

resetChart ==
    /\ uploadedData.loaded
    /\ ChartIs(Settled(uploadedData, "", "", "bar", Null))
    /\ UNCHANGED <<fileUploadVars, dashboardVars, previewVars, callVars>>

----------------------------------------------------------------------------
(* DataPreview: the search filter *)

DigitChars == <<"0", "1", "2", "3", "4", "5", "6", "7", "8", "9">>
UpperCase ==
    <<"A", "B", "C", "D", "E", "F", "G", "H", "I", "J", "K", "L", "M",
      "N", "O", "P", "Q", "R", "S", "T", "U", "V", "W", "X", "Y", "Z">>
LowerCase ==
    <<"a", "b", "c", "d", "e", "f", "g", "h", "i", "j", "k", "l", "m",
      "n", "o", "p", "q", "r", "s", "t", "u", "v", "w", "x", "y", "z">>

\* The characters of the model in the order of their code units
CodeUnits == <<" ", "+", "-", ".">> \o DigitChars \o UpperCase \o LowerCase

CodeUnit(c) == IndexOf(CodeUnits, c)

Chars(str) ==
    CASE str = "true" -> <<"t", "r", "u", "e">>
      [] str = "false" -> <<"f", "a", "l", "s", "e">>
      [] str = "null" -> <<"n", "u", "l", "l">>
      [] OTHER -> <<"u", "n", "d", "e", "f", "i", "n", "e", "d">>

RECURSIVE NaturalToString(_)
NaturalToString(n) ==
    IF n < 10 THEN <<DigitChars[n + 1]>>
    ELSE NaturalToString(n \div 10) \o <<DigitChars[(n % 10) + 1]>>

\* Number::toString of an integer
NumberToString(n) == IF n < 0 THEN <<"-">> \o NaturalToString(-n) ELSE NaturalToString(n)

\* String(cell)
StringOf(cell) ==
    CASE cell.t = "number" -> NumberToString(cell.n)
      [] cell.t = "string" -> cell.s
      [] cell.t = "boolean" -> IF cell.b THEN Chars("true") ELSE Chars("false")
      [] cell.t = "null" -> Chars("null")
      [] OTHER -> Chars("undefined")

toLowerCase(s) ==
    [i \in 1..Len(s) |->
        IF IndexOf(UpperCase, s[i]) # 0 THEN LowerCase[IndexOf(UpperCase, s[i])] ELSE s[i]]

includes(s, t) == \E i \in 0..(Len(s) - Len(t)) : SubSeq(s, i + 1, i + Len(t)) = t

\* The filter callback with the term compared as typed
Matches_CaseSensitive(row, term) ==
    \E i \in 1..Len(row) : includes(StringOf(row[i]), term)

\* The callback of data.filter: row.some over the cells of the row (a row of the
\* model holds a value in every cell up to its end, so some skips no cell)
Matches(row, term) ==
    \E i \in 1..Len(row) : includes(toLowerCase(StringOf(row[i])), toLowerCase(term))

\* filteredData after the search filter; an empty searchTerm is falsy
filtered(data, term) ==
    IF term # <<>> THEN SelectSeq(data, LAMBDA row : Matches(row, term)) ELSE data

----------------------------------------------------------------------------
(* DataPreview: the sort *)

\* A number as a fraction num/den with den a power of ten, or NaN
NaN == [nan |-> TRUE, num |-> 0, den |-> 1]
Fraction(num, den) == [nan |-> FALSE, num |-> num, den |-> den]

RECURSIVE DigitsValue(_)
DigitsValue(s) ==
    IF s = <<>> THEN 0
    ELSE 10 * DigitsValue(SubSeq(s, 1, Len(s) - 1)) + (IndexOf(DigitChars, s[Len(s)]) - 1)

RECURSIVE PowerOfTen(_)
PowerOfTen(k) == IF k = 0 THEN 1 ELSE 10 * PowerOfTen(k - 1)

UnsignedValue(s) ==
    LET p == IndexOf(s, ".")
    IN  IF p = 0 THEN Fraction(DigitsValue(s), 1)
        ELSE Fraction(DigitsValue(SubSeq(s, 1, p - 1) \o SubSeq(s, p + 1, Len(s))),
                      PowerOfTen(Len(s) - p))

\* StringToNumber: the empty string is 0, a decimal literal is its value, any
\* other string is NaN (strings of the model hold no exponent and no radix prefix)
StringToNumber(s) ==
    LET t == TrimRight(TrimLeft(s))
    IN  IF t = <<>> THEN Fraction(0, 1)
        ELSE IF ~SignedDecimal(t) THEN NaN
        ELSE IF Head(t) = "-"
        THEN LET u == UnsignedValue(Tail(t)) IN Fraction(-u.num, u.den)
        ELSE IF Head(t) = "+" THEN UnsignedValue(Tail(t))
        ELSE UnsignedValue(t)

ToNumber(val) ==
    CASE val.t = "number" -> Fraction(val.n, 1)
      [] val.t = "string" -> StringToNumber(val.s)
      [] val.t = "boolean" -> Fraction(IF val.b THEN 1 ELSE 0, 1)
      [] val.t = "null" -> Fraction(0, 1)
      [] OTHER -> NaN

\* s < t on strings: by code units
RECURSIVE LexLess(_, _)
LexLess(s, t) ==
    IF t = <<>> THEN FALSE
    ELSE IF s = <<>> THEN TRUE
    ELSE IF Head(s) = Head(t) THEN LexLess(Tail(s), Tail(t))
    ELSE CodeUnit(Head(s)) < CodeUnit(Head(t))

\* aVal < bVal: two strings by code units, any other pair as numbers, false when
\* one of the two is NaN
LessThan(aVal, bVal) ==
    IF aVal.t = "string" /\ bVal.t = "string" THEN LexLess(aVal.s, bVal.s)
    ELSE LET x == ToNumber(aVal)
             y == ToNumber(bVal)
         IN  ~x.nan /\ ~y.nan /\ x.num * y.den < y.num * x.den

\* The comparator handed to sort, on rows a and b
compare(a, b, columnIndex, direction) ==
    LET aVal == At(a, columnIndex)
        bVal == At(b, columnIndex)
    IN  IF aVal = bVal THEN 0
        ELSE LET comparison == IF LessThan(aVal, bVal) THEN -1 ELSE 1
             IN  IF direction = "asc" THEN comparison ELSE -comparison

\* The comparator is a consistent comparator for the rows (ECMAScript,
\* Array.prototype.sort): on the values of the column it is antisymmetric, and
\* both its "before" and its "equal" are transitive
ConsistentComparator(rows, columnIndex, direction) ==
    LET V == {At(rows[i], columnIndex) : i \in 1..Len(rows)}
        cmp(x, y) == compare(<<x>>, <<y>>, 1, direction)
    IN  /\ \A a, b \in V : (cmp(a, b) < 0) = (cmp(b, a) > 0)
        /\ \A a, b \in V :
              cmp(a, b) <= 0 =>
                  \A c \in V :
                      cmp(b, c) <= 0 =>
                          /\ cmp(a, c) <= 0
                          /\ (cmp(a, b) < 0 \/ cmp(b, c) < 0) => cmp(a, c) < 0

RECURSIVE InsertSorted(_, _, _, _)
InsertSorted(sorted, row, columnIndex, direction) ==
    IF sorted = <<>> THEN <<row>>
    ELSE LET last == sorted[Len(sorted)]
         IN  IF compare(last, row, columnIndex, direction) <= 0 THEN Append(sorted, row)
             ELSE Append(InsertSorted(SubSeq(sorted, 1, Len(sorted) - 1), row, columnIndex,
                                      direction), last)

\* The stable sort of rows by a consistent comparator
RECURSIVE StableSorted(_, _, _)
StableSorted(rows, columnIndex, direction) ==
    IF rows = <<>> THEN <<>>
    ELSE InsertSorted(StableSorted(SubSeq(rows, 1, Len(rows) - 1), columnIndex, direction),
                      rows[Len(rows)], columnIndex, direction)

\* The rows in every order
Reorderings(rows) ==
    {[i \in 1..Len(rows) |-> rows[p[i]]] : p \in Permutations(1..Len(rows))}

\* What [...filteredData].sort(compare) may return: the stable sort if the
\* comparator is consistent for the rows; if it is not, the order is left to the
\* implementation, which returns some permutation of the rows
SortOutcomes(rows, columnIndex, direction) ==
    IF ConsistentComparator(rows, columnIndex, direction)
    THEN {StableSorted(rows, columnIndex, direction)}
    ELSE Reorderings(rows)

\* A sort column that is set: neither null nor the empty string
Truthy(column) == column # Null /\ ~Falsy(column)

\* The values the filteredAndSortedData memo may take
Memo(data, headers, term, column, direction) ==
    LET filteredData == filtered(data, term)
    IN  IF Truthy(column)
        THEN SortOutcomes(filteredData, IndexOf(headers, column), direction)
        ELSE {filteredData}

\* A sort that orders filteredData itself, which is data when no term is set
dataAfterSort_InPlace(data, term, sorted) == IF term = <<>> THEN sorted ELSE data

\* The data prop after the memo has run: the sort is applied to a copy
dataAfterSort(data, term, sorted) == data

----------------------------------------------------------------------------
(* DataPreview: state and handlers *)

maxPreviewRows == 10

\* previewRows cut to the first rows whatever showAllRows is
previewRows_FirstRows == Take(filteredAndSortedData, maxPreviewRows)

previewRows ==
    IF showAllRows THEN filteredAndSortedData ELSE Take(filteredAndSortedData, maxPreviewRows)

hasMoreRows == Len(filteredAndSortedData) > maxPreviewRows

\* The note "Showing 10 of N rows" is rendered
TruncationNotice == hasMoreRows /\ ~showAllRows

Preview(showAll, term, column, direction) ==
    [showAllRows |-> showAll, searchTerm |-> term, sortColumn |-> column,
     sortDirection |-> direction]

currentPreview == Preview(showAllRows, searchTerm, sortColumn, sortDirection)

\* A DataPreview that stays mounted, and keeps its state, while no store is loaded
PreviewKept == currentPreview

\* The state a DataPreview is mounted with (useState initial values); the model
\* keeps it in the preview variables while no DataPreview is mounted
PreviewUnmounted == Preview(FALSE, <<>>, Null, "asc")

PreviewIs(p, rows) ==
    /\ showAllRows' = p.showAllRows
    /\ searchTerm' = p.searchTerm
    /\ sortColumn' = p.sortColumn
    /\ sortDirection' = p.sortDirection
    /\ filteredAndSortedData' = rows

\* DataPreview as it is mounted on the rows of a store
PreviewInitial(rows) ==
    /\ showAllRows = FALSE
    /\ searchTerm = <<>>
    /\ sortColumn = Null
    /\ sortDirection = "asc"
    /\ filteredAndSortedData = rows

\* The render of DataPreview with state p: the memo is computed again
Recomputed(p) ==
    \E rows \in Memo(uploadedData.data, uploadedData.headers, p.searchTerm, p.sortColumn,
                     p.sortDirection) :
        /\ PreviewIs(p, rows)
        /\ uploadedData' =
              [uploadedData EXCEPT !.data = dataAfterSort(@, p.searchTerm, rows)]
        /\ UNCHANGED <<uploadHistory, currentFileName, isProcessing, dashError, now>>

\* The onChange of the search input
setSearchTerm(term) ==
    /\ uploadedData.loaded
    /\ term # searchTerm
    /\ Recomputed([currentPreview EXCEPT !.searchTerm = term])
    /\ UNCHANGED <<fileUploadVars, chartVars, callVars>>

\* handleSort that leaves the direction as it is on a change of column
NextSort_KeepsDirection(column) ==
    IF sortColumn = column
    THEN [sortColumn |-> sortColumn,
          sortDirection |-> IF sortDirection = "asc" THEN "desc" ELSE "asc"]
    ELSE [sortColumn |-> column, sortDirection |-> sortDirection]

\* The sort column and direction handleSort(column) sets
NextSort(column) ==
    IF sortColumn = column
    THEN [sortColumn |-> sortColumn,
          sortDirection |-> IF sortDirection = "asc" THEN "desc" ELSE "asc"]
    ELSE [sortColumn |-> column, sortDirection |-> "asc"]

\* A click on the header cell of column
handleSort(column) ==
    /\ uploadedData.loaded
    /\ column \in Range(uploadedData.headers)
    /\ LET n == NextSort(column)
       IN  Recomputed([currentPreview EXCEPT !.sortColumn = n.sortColumn,
                                             !.sortDirection = n.sortDirection])
    /\ UNCHANGED <<fileUploadVars, chartVars, callVars>>

\* A click on Show All / Show Less; the button is disabled without more rows
setShowAllRows ==
    /\ uploadedData.loaded
    /\ hasMoreRows
    /\ showAllRows' = ~showAllRows
    /\ UNCHANGED <<searchTerm, sortColumn, sortDirection, filteredAndSortedData>>
    /\ UNCHANGED <<fileUploadVars, dashboardVars, chartVars, callVars>>

----------------------------------------------------------------------------
(* Dashboard *)

Dash(data, history, fileName, processing, err, clock) ==
    [uploadedData |-> data, uploadHistory |-> history, currentFileName |-> fileName,
     isProcessing |-> processing, error |-> err, now |-> clock]

currentDash ==
    Dash(uploadedData, uploadHistory, currentFileName, isProcessing, dashError, now)

InitialDash == Dash(NoData, <<>>, "", FALSE, Null, 0)

\* handleDataUpload that keeps five records of the history before the new one
handleDataUpload_KeepsSix(d, data, fileName) ==
    IF ~data.loaded \/ Len(data.data) = 0
    THEN Dash(d.uploadedData, d.uploadHistory, d.currentFileName, FALSE,
              "No data found in the uploaded file", d.now)
    ELSE IF Len(data.headers) = 0
    THEN Dash(d.uploadedData, d.uploadHistory, d.currentFileName, FALSE,
              "No headers found in the uploaded file", d.now)
    ELSE LET newUpload == [id |-> d.now + 1,
                           fileName |-> IF fileName = "" THEN "excel-file.xlsx" ELSE fileName,
                           rowCount |-> Len(data.data),
                           columnCount |-> Len(data.headers)]
         IN  Dash(data, <<newUpload>> \o Take(d.uploadHistory, 5), newUpload.fileName,
                  FALSE, Null, d.now + 1)

\* handleDataUpload called in Dashboard state d: the state it leaves (isProcessing
\* is set and, in the finally block, cleared again within the one call).  Date.now()
\* is a clock that has advanced since the previous upload.
handleDataUpload(d, data, fileName) ==
    IF ~data.loaded \/ Len(data.data) = 0
    THEN Dash(d.uploadedData, d.uploadHistory, d.currentFileName, FALSE,
              "No data found in the uploaded file", d.now)
    ELSE IF Len(data.headers) = 0
    THEN Dash(d.uploadedData, d.uploadHistory, d.currentFileName, FALSE,
              "No headers found in the uploaded file", d.now)
    ELSE LET newUpload == [id |-> d.now + 1,
                           fileName |-> IF fileName = "" THEN "excel-file.xlsx" ELSE fileName,
                           rowCount |-> Len(data.data),
                           columnCount |-> Len(data.headers)]
         IN  Dash(data, <<newUpload>> \o Take(d.uploadHistory, 4), newUpload.fileName,
                  FALSE, Null, d.now + 1)

DashboardIs(d) ==
    /\ uploadedData' = d.uploadedData
    /\ uploadHistory' = d.uploadHistory
    /\ currentFileName' = d.currentFileName
    /\ isProcessing' = d.isProcessing
    /\ dashError' = d.error
    /\ now' = d.now

\* handleReset; the render that follows unmounts DataPreview and ChartGenerator and
\* mounts a fresh FileUpload
handleReset ==
    /\ uploadedData.loaded
    /\ uploadedData' = NoData
    /\ currentFileName' = ""
    /\ dashError' = Null
    /\ ChartIs(ChartUnmounted)
    /\ PreviewIs(PreviewUnmounted, <<>>)
    /\ UNCHANGED <<uploadHistory, isProcessing, now, fileUploadVars, callVars>>

----------------------------------------------------------------------------
(* FileUpload *)

\* A FileUpload that is rendered whether or not a store is loaded
AlwaysMounted == TRUE

\* The Dashboard renders FileUpload only while it holds no store
FileUploadMounted == ~uploadedData.loaded

\* A dropzone without the disabled prop
NeverDisabled == FALSE

DropzoneDisabled == isLoading \/ isProcessing

FileUploadIs(loading, err, progress, tm, fl, f, fail, drop) ==
    /\ isLoading' = loading
    /\ uploadError' = err
    /\ uploadProgress' = progress
    /\ timers' = tm
    /\ inFlight' = fl
    /\ file' = f
    /\ failure' = fail
    /\ lastDrop' = drop

Remove(s, i) == SubSeq(s, 1, i - 1) \o SubSeq(s, i + 1, Len(s))

\* A processExcelFile that clears the loading flag at the end of its try block,
\* which a throw does not reach
LoadingAfter_TryOnly(thrown) == thrown # "None"

\* isLoading once processExcelFile has ended with the throw thrown (None for no
\* throw): the finally block clears it on every path
LoadingAfter(thrown) == FALSE

\* onDrop with an accepted file: processExcelFile up to its await
Submit(f) ==
    /\ FileUploadMounted
    /\ ~DropzoneDisabled
    /\ Len(inFlight) < MaxInFlight
    /\ timers < MaxTimers
    /\ LET v == Validate(f)
       IN  IF v # "Ok"
           THEN FileUploadIs(LoadingAfter(v), ThrownMessage(v), 0, timers + 1, inFlight, f, v,
                             "accepted")
           ELSE FileUploadIs(TRUE, Null, 25, timers, Append(inFlight, f), f, "None", "accepted")
    /\ UNCHANGED <<dashboardVars, chartVars, previewVars, callVars>>

\* A drop on the disabled dropzone: no callback runs
DropIgnored ==
    /\ FileUploadMounted
    /\ DropzoneDisabled
    /\ lastDrop' = "ignored"
    /\ UNCHANGED <<isLoading, uploadError, uploadProgress, timers, inFlight, file, failure>>
    /\ UNCHANGED <<dashboardVars, chartVars, previewVars, callVars>>

\* onDropRejected
DropRejected(code) ==
    /\ FileUploadMounted
    /\ ~DropzoneDisabled
    /\ uploadError' = RejectionMessage(code)
    /\ lastDrop' = "rejected"
    /\ UNCHANGED <<isLoading, uploadProgress, timers, inFlight, file, failure>>
    /\ UNCHANGED <<dashboardVars, chartVars, previewVars, callVars>>

\* The callback of setTimeout(() => setUploadProgress(0), 1000)
TimerFires ==
    /\ timers > 0
    /\ timers' = timers - 1
    /\ uploadProgress' = 0
    /\ UNCHANGED <<isLoading, uploadError, inFlight, file, failure, lastDrop>>
    /\ UNCHANGED <<dashboardVars, chartVars, previewVars, callVars>>

\* What the rest of processExcelFile does with the file: the throw it reaches
\* (None when it reaches onDataUpload) and the progress set by then
Processed(f) ==
    IF f.codec = "rejects" THEN [failure |-> "ReadError", progress |-> 25, excelData |-> NoData]
    ELSE IF f.codec = "throws" THEN [failure |-> "CodecError", progress |-> 50, excelData |-> NoData]
    ELSE LET d == Decode(f.json)
         IN  [failure |-> d.failure, progress |-> IF d.failure = "None" THEN 100 ELSE 75,
              excelData |-> d.excelData]

\* The read of inFlight[i] settles: processExcelFile from its await to its end,
\* the onDataUpload call included
ReadDone(i) ==
    /\ i \in 1..Len(inFlight)
    /\ LET f == inFlight[i]
           p == Processed(f)
           d == IF p.failure = "None" THEN handleDataUpload(currentDash, p.excelData, f.name)
                ELSE currentDash
           installed == p.failure = "None" /\ d.error = Null
       IN  /\ DashboardIs(d)
           /\ IF ~FileUploadMounted
              THEN /\ inFlight' = Remove(inFlight, i)
                   /\ UNCHANGED <<isLoading, uploadError, uploadProgress, timers, file,
                                  failure, lastDrop>>
              ELSE IF installed
              THEN FileUploadIs(FALSE, Null, 0, 0, Remove(inFlight, i), NoFile, "None", "none")
              ELSE FileUploadIs(LoadingAfter(p.failure),
                                IF p.failure = "None" THEN uploadError
                                ELSE ThrownMessage(p.failure),
                                p.progress, timers + 1, Remove(inFlight, i), f, p.failure,
                                lastDrop)
           /\ IF installed
              THEN /\ ChartIs(Settled(d.uploadedData, xAxis, yAxis, chartType, chartError))
                   /\ \E rows \in Memo(d.uploadedData.data, d.uploadedData.headers,
                                       searchTerm, sortColumn, sortDirection) :
                          PreviewIs(currentPreview, rows)
              ELSE UNCHANGED <<chartVars, previewVars>>
    /\ UNCHANGED callVars

----------------------------------------------------------------------------
(* Inputs *)

HeaderNames == {"A", "B", "Name", "Sales"}

\* Header rows of the uploaded workbooks: none, one column, two columns
PipelineHeaders == {<<>>, <<"A">>, <<"A", "B">>, <<"B", "B">>}
PipelineCells == {Num(10)}

\* Raw matrices of sheet_to_json(sheet, {header: 1}): no row at all for a sheet
\* without a range, else a header row and the data rows; a row ends at its last
\* cell that holds a value, so rows differ in length
Matrices(headerRows, cells, maxRows) ==
    {<<>>} \cup
    {<<h>> \o d : h \in headerRows, d \in SeqsUpTo(SeqsUpTo(cells, MaxCols), maxRows)}

File(size, type, name, codec, json) ==
    [size |-> size, type |-> type, name |-> name, codec |-> codec, json |-> json]

\* Files that differ in size and declared type
ProbeFiles ==
    {File(size, type, "book.xlsx", "reads", <<<<"A">>, <<Num(10)>>>>) :
        size \in {maxSize, maxSize + 1, 11 * 1024 * 1024},
        type \in {XlsxType, XlsType, "text/csv"}}

\* Files that differ in what the codec makes of them
WorkbookFiles ==
    {File(maxSize, XlsxType, "book.xlsx", "reads", m) :
        m \in Matrices(PipelineHeaders, PipelineCells, MaxDataRows)}
    \cup {File(maxSize, XlsxType, "book.xlsx", c, <<>>) : c \in {"rejects", "throws"}}

Files == ProbeFiles \cup WorkbookFiles

Alice == <<"A", "l", "i", "c", "e">>
Bob == <<"B", "o", "b">>

\* Stores the chart is configured on: short, ragged and mixed columns, and the
\* workbooks of the scenarios
ChartHeaders == {<<"Name", "Sales">>, <<"Sales">>, <<"Name", "Name">>}
ChartCells == {Str(Alice), Num(10)}

ScenarioA == <<<<"Name", "Sales">>, <<Str(Alice), Num(10)>>, <<Str(Bob), Num(20)>>>>
ScenarioD ==
    <<<<"Name", "Sales">>, <<Num(10), Str(<<"x">>)>>, <<Num(20), Str(<<"y">>)>>,
      <<Num(10), Str(<<"z">>)>>>>
Booleans == <<<<"Name", "Sales">>, <<Str(Alice), Bool(TRUE)>>, <<Str(Bob), Bool(FALSE)>>>>
NumericStrings ==
    <<<<"Name", "Sales">>, <<Str(Alice), Str(<<"1", "0">>)>>, <<Str(Bob), Str(<<>>)>>,
      <<Str(Bob), NullCell>>>>

ChartMatrices ==
    Matrices(ChartHeaders, ChartCells, MaxChartRows)
    \cup {ScenarioA, ScenarioD, Booleans, NumericStrings}

\* Values the numeric test is applied to
Alphabet == {"1", "a", " ", "-", "."}
CoerceCells ==
    {Str(str) : str \in SeqsUpTo(Alphabet, MaxStrLen)}
    \cup {Num(0), Num(10), Num(-1), Bool(TRUE), Bool(FALSE), NullCell, Undefined}

RejectionCodes == {"file-too-large", "file-invalid-type", "too-many-files"}

\* Terms typed into the search input
TermAlphabet == {"b", "O", "1"}
SearchTerms == SeqsUpTo(TermAlphabet, MaxTermLen) \cup {<<"b", "o", "b">>}

\* Stores the preview is shown on: equal values in the sort column, a column that
\* mixes numbers, strings and booleans, a row that ends before the sort column,
\* and stores of as many rows as the preview shows and of more
Ties ==
    <<<<"Name", "Sales">>, <<Str(Bob), Num(10)>>, <<Str(Alice), Num(10)>>,
      <<Str(Bob), Num(5)>>>>
MixedColumn ==
    <<<<"Name", "Sales">>, <<Str(Alice), Num(10)>>, <<Str(Bob), Str(<<"a">>)>>,
      <<Str(Bob), Bool(TRUE)>>>>
Ragged == <<<<"Name", "Sales">>, <<Str(Alice)>>, <<Str(Bob), Num(20)>>>>
LongStore(n) ==
    <<<<"Name", "Sales">>>> \o
    [i \in 1..n |-> <<Str(IF i % 2 = 0 THEN Bob ELSE Alice), Num(n - i)>>]

PreviewMatrices ==
    {ScenarioA, Ties, MixedColumn, Ragged, Booleans, NumericStrings}
    \cup {LongStore(n) : n \in {maxPreviewRows, MaxLongRows}}

----------------------------------------------------------------------------
(* The dashboard: Init is the first render *)

\* A drop the dropzone hands to onDrop.  Which files the dropzone accepts (its
\* accept and maxSize options) is decided by the dropzone library: every file may
\* reach processExcelFile here, and every rejection code may reach onDropRejected.
Upload(f) == now < MaxUploads /\ Submit(f)

Init ==
    /\ isLoading = FALSE
    /\ uploadError = Null
    /\ uploadProgress = 0
    /\ timers = 0
    /\ inFlight = <<>>
    /\ file = NoFile
    /\ failure = "None"
    /\ lastDrop = "none"
    /\ uploadedData = NoData
    /\ uploadHistory = <<>>
    /\ currentFileName = ""
    /\ isProcessing = FALSE
    /\ dashError = Null
    /\ now = 0
    /\ xAxis = ""
    /\ yAxis = ""
    /\ chartType = "bar"
    /\ chartError = Null
    /\ PreviewInitial(<<>>)
    /\ arg = NoCall
    /\ ret = "none"

Next ==
    \/ \E f \in Files : Upload(f)
    \/ DropIgnored
    \/ \E code \in RejectionCodes : DropRejected(code)
    \/ TimerFires
    \/ \E i \in 1..MaxInFlight : ReadDone(i)
    \/ handleReset
    \/ \E h \in HeaderNames : setXAxis(h)
    \/ \E h \in HeaderNames : setYAxis(h)
    \/ \E t \in ChartTypes : setChartType(t)
    \/ resetChart

Spec == Init /\ [][Next]_vars

\* The upload pipeline on one file for every path through processExcelFile, with
\* every read of a file settling: the promise of file.arrayBuffer() is resolved
\* or rejected by the browser, and the rest of processExcelFile then runs
PathFiles ==
    {File(maxSize + 1, XlsxType, "big.xlsx", "reads", <<<<"A">>, <<Num(10)>>>>),
     File(maxSize, "text/csv", "book.csv", "reads", <<<<"A">>, <<Num(10)>>>>),
     File(maxSize, XlsxType, "unreadable.xlsx", "rejects", <<>>),
     File(maxSize, XlsxType, "broken.xlsx", "throws", <<>>),
     File(maxSize, XlsxType, "empty.xlsx", "reads", <<>>),
     File(maxSize, XlsxType, "blank.xlsx", "reads", <<<<>>>>),
     File(maxSize, XlsxType, "headers.xlsx", "reads", <<<<"A", "B">>>>),
     File(maxSize, XlsxType, "book.xlsx", "reads", <<<<"A", "B">>, <<Num(10), Num(10)>>>>)}

NextLive ==
    \/ \E f \in PathFiles : Upload(f)
    \/ DropIgnored
    \/ TimerFires
    \/ \E i \in 1..MaxInFlight : ReadDone(i)
    \/ handleReset

SpecLive == Init /\ [][NextLive]_vars /\ WF_vars(\E i \in 1..MaxInFlight : ReadDone(i))

----------------------------------------------------------------------------
(* The chart configuration on its own: Init is the dashboard after the first
   upload of a workbook *)

FileUploadInitial ==
    /\ isLoading = FALSE
    /\ uploadError = Null
    /\ uploadProgress = 0
    /\ timers = 0
    /\ inFlight = <<>>
    /\ file = NoFile
    /\ failure = "None"
    /\ lastDrop = "none"

InitChart ==
    \E m \in ChartMatrices :
        /\ Decode(m).failure = "None"
        /\ LET d == handleDataUpload(InitialDash, Decode(m).excelData, "book.xlsx")
               c == Settled(d.uploadedData, "", "", "bar", Null)
           IN  /\ FileUploadInitial
               /\ uploadedData = d.uploadedData
               /\ uploadHistory = d.uploadHistory
               /\ currentFileName = d.currentFileName
               /\ isProcessing = d.isProcessing
               /\ dashError = d.error
               /\ now = d.now
               /\ xAxis = c.xAxis
               /\ yAxis = c.yAxis
               /\ chartType = c.chartType
               /\ chartError = c.error
               /\ PreviewInitial(d.uploadedData.data)
               /\ arg = NoCall
               /\ ret = "none"

NextChart ==
    \/ \E h \in HeaderNames : setXAxis(h)
    \/ \E h \in HeaderNames : setYAxis(h)
    \/ \E t \in ChartTypes : setChartType(t)
    \/ resetChart

SpecChart == InitChart /\ [][NextChart]_vars

----------------------------------------------------------------------------
(* The data preview on its own: Init is the dashboard after the first upload of
   a workbook *)

InitPreview ==
    \E m \in PreviewMatrices :
        /\ Decode(m).failure = "None"
        /\ LET d == handleDataUpload(InitialDash, Decode(m).excelData, "book.xlsx")
               c == Settled(d.uploadedData, "", "", "bar", Null)
           IN  /\ FileUploadInitial
               /\ uploadedData = d.uploadedData
               /\ uploadHistory = d.uploadHistory
               /\ currentFileName = d.currentFileName
               /\ isProcessing = d.isProcessing
               /\ dashError = d.error
               /\ now = d.now
               /\ xAxis = c.xAxis
               /\ yAxis = c.yAxis
               /\ chartType = c.chartType
               /\ chartError = c.error
               /\ PreviewInitial(d.uploadedData.data)
               /\ arg = NoCall
               /\ ret = "none"

NextPreview ==
    \/ \E term \in SearchTerms : setSearchTerm(term)
    \/ \E h \in HeaderNames : handleSort(h)
    \/ setShowAllRows

SpecPreview == InitPreview /\ [][NextPreview]_vars

----------------------------------------------------------------------------
(* A session of uploads, views and resets: the dashboard with the handlers of
   all its components, on few files *)

SessionFiles ==
    {File(maxSize, XlsxType, "long.xlsx", "reads", LongStore(MaxLongRows)),
     File(maxSize, XlsxType, "book.xlsx", "reads", <<<<"A">>, <<Num(10)>>>>),
     File(maxSize + 1, XlsxType, "big.xlsx", "reads", <<<<"A">>, <<Num(10)>>>>)}

SessionTerms == {<<>>, <<"b">>}

NextSession ==
    \/ \E f \in SessionFiles : Upload(f)
    \/ TimerFires
    \/ \E i \in 1..MaxInFlight : ReadDone(i)
    \/ handleReset
    \/ \E h \in HeaderNames : setXAxis(h)
    \/ \E h \in HeaderNames : setYAxis(h)
    \/ resetChart
    \/ \E term \in SessionTerms : setSearchTerm(term)
    \/ \E h \in HeaderNames : handleSort(h)
    \/ setShowAllRows

SpecSession == Init /\ [][NextSession]_vars

----------------------------------------------------------------------------
(* The upload history: uploads that succeed, uploads that fail and resets, as
   many as fill the history and overflow it *)

HistoryFiles ==
    {File(maxSize, XlsxType, "a.xlsx", "reads", <<<<"A">>, <<Num(10)>>>>),
     File(maxSize, XlsxType, "b.xlsx", "reads", <<<<"A", "B">>, <<Num(10), Num(10)>>>>),
     File(maxSize, XlsxType, "empty.xlsx", "reads", <<<<"A">>>>),
     File(maxSize + 1, XlsxType, "big.xlsx", "reads", <<<<"A">>, <<Num(10)>>>>)}

UploadToHistory(f) == now < MaxHistoryUploads /\ Submit(f)

NextHistory ==
    \/ \E f \in HistoryFiles : UploadToHistory(f)
    \/ TimerFires
    \/ \E i \in 1..MaxInFlight : ReadDone(i)
    \/ handleReset

SpecHistory == Init /\ [][NextHistory]_vars

----------------------------------------------------------------------------
(* The numeric test on its own *)

\* The callback of yValues.filter applied to one value
ApplyIsNumericY ==
    /\ ret = "none"
    /\ ret' = IF IsNumericY(arg) THEN "numeric" ELSE "not numeric"
    /\ UNCHANGED <<arg, fileUploadVars, dashboardVars, chartVars, previewVars>>

InitCoerce ==
    /\ arg \in CoerceCells
    /\ ret = "none"
    /\ FileUploadInitial
    /\ uploadedData = NoData
    /\ uploadHistory = <<>>
    /\ currentFileName = ""
    /\ isProcessing = FALSE
    /\ dashError = Null
    /\ now = 0
    /\ xAxis = ""
    /\ yAxis = ""
    /\ chartType = "bar"
    /\ chartError = Null
    /\ PreviewInitial(<<>>)

NextCoerce == ApplyIsNumericY

SpecCoerce == InitCoerce /\ [][NextCoerce]_vars

----------------------------------------------------------------------------
(* Properties *)

TenMiB == 10 * 1024 * 1024
SpreadsheetTypes ==
    {"application/vnd.openxmlformats-officedocument.spreadsheetml.sheet",
     "application/vnd.ms-excel"}

\* C1: every store installed as the active store has at least one header, at least
\* one data row, and every data row is as long as the header row.
C1_RectangularStore ==
    uploadedData.loaded =>
        /\ Len(uploadedData.headers) > 0
        /\ Len(uploadedData.data) > 0
        /\ \A i \in 1..Len(uploadedData.data) :
              Len(uploadedData.data[i]) = Len(uploadedData.headers)

\* C2: the file handed to processExcelFile fails with SizeExceeded exactly when its
\* size is above 10 MiB, with UnsupportedType exactly when its size is within the
\* limit and its type is not one of the two spreadsheet types, and passes
\* validation otherwise; the message shown is the one of the failure.
C2_ValidationOutcome ==
    file # NoFile =>
        LET tooBig == file.size > TenMiB
            badType == file.type \notin SpreadsheetTypes
        IN  /\ (failure = "SizeExceeded") = tooBig
            /\ (failure = "UnsupportedType") = (~tooBig /\ badType)
            /\ (failure = "SizeExceeded" /\ lastDrop = "accepted")
                  => uploadError = "File size exceeds 10MB limit"
            /\ (failure = "UnsupportedType" /\ lastDrop = "accepted")
                  => uploadError = "Please upload a valid Excel file (.xlsx or .xls)"

\* C2 witness: a file above the limit and of a foreign type fails with SizeExceeded.
C2_BothChecksFail ==
    /\ file.size > TenMiB
    /\ file.type = "text/csv"
    /\ failure = "SizeExceeded"
    /\ uploadError = "File size exceeds 10MB limit"

\* The latest file passed validation, was read by the codec, and processExcelFile
\* has run to its end without a store being installed
DecodeEnded ==
    /\ file # NoFile
    /\ inFlight = <<>>
    /\ file.codec = "reads"
    /\ file.size <= TenMiB
    /\ file.type \in SpreadsheetTypes

\* C3 (as claimed): decode fails with EmptyWorkbook if the raw matrix has no row,
\* with NoHeaders if its header row has no column, and with NoDataRows if it has
\* exactly one row; then no store is installed and onDataUpload is not called.
C3_AsClaimed ==
    DecodeEnded =>
        /\ Len(file.json) = 0 => failure = "EmptyWorkbook"
        /\ (Len(file.json) > 0 /\ Len(file.json[1]) = 0) => failure = "NoHeaders"
        /\ Len(file.json) = 1 => failure = "NoDataRows"
        /\ failure \in {"EmptyWorkbook", "NoHeaders", "NoDataRows"}
              => ~uploadedData.loaded /\ dashError = Null /\ uploadProgress # 100

\* C3 (amended): the three checks are made in that order, so a matrix of exactly
\* one row fails with NoDataRows only if that row has at least one column.
C3_DecodeFailures ==
    DecodeEnded =>
        /\ Len(file.json) = 0 => failure = "EmptyWorkbook"
        /\ (Len(file.json) > 0 /\ Len(file.json[1]) = 0) => failure = "NoHeaders"
        /\ (Len(file.json) = 1 /\ Len(file.json[1]) > 0) => failure = "NoDataRows"
        /\ failure \in {"EmptyWorkbook", "NoHeaders", "NoDataRows"}
              => ~uploadedData.loaded /\ dashError = Null /\ uploadProgress # 100

\* C3 witness: the workbook [[A, B]] has failed with NoDataRows.
C3_HeaderRowOnly ==
    /\ DecodeEnded
    /\ file.json = <<<<"A", "B">>>>
    /\ failure = "NoDataRows"
    /\ uploadError = "No data rows found in the Excel file"
    /\ ~uploadedData.loaded

\* C4: a file that fails validation is never read or decoded: no read is in flight
\* for such a file, and once it has been submitted the submission has ended with
\* the failure shown, the progress never set, and no store installed.
C4_InvalidFileNeverRead ==
    /\ \A i \in 1..Len(inFlight) :
          inFlight[i].size <= TenMiB /\ inFlight[i].type \in SpreadsheetTypes
    /\ (file # NoFile /\ (file.size > TenMiB \/ file.type \notin SpreadsheetTypes)) =>
          /\ ~isLoading
          /\ inFlight = <<>>
          /\ failure \in {"SizeExceeded", "UnsupportedType"}
          /\ uploadError # Null
          /\ uploadProgress = 0
          /\ ~uploadedData.loaded

\* C4 witness: a file of 11 MiB has failed with SizeExceeded.
C4_ElevenMiBFailed ==
    /\ file.size = 11 * 1024 * 1024
    /\ failure = "SizeExceeded"
    /\ ~isLoading
    /\ inFlight = <<>>

\* C5: at most one file is being read at any time, and the component is loading
\* while one is.
C5_SingleInFlight ==
    /\ Len(inFlight) <= 1
    /\ Len(inFlight) = 1 => isLoading

\* C5 witness: a file was dropped while another was being read, and was ignored.
C5_DropWhileReading ==
    /\ Len(inFlight) = 1
    /\ isLoading
    /\ lastDrop = "ignored"

\* C6: with a store loaded, each axis selection is empty or the name of a column
\* of that store.
C6_SelectionInHeaders ==
    uploadedData.loaded =>
        \A a \in {xAxis, yAxis} :
            a = "" \/ \E i \in 1..Len(uploadedData.headers) : uploadedData.headers[i] = a

\* C6 witness: a store of two columns was replaced, through reset and upload, by a
\* store whose only column is A, on which both axes have been selected.
C6_StoreReplaced ==
    /\ uploadedData.loaded
    /\ Len(uploadHistory) = 2
    /\ uploadHistory[2].columnCount = 2
    /\ uploadedData.headers = <<"A">>
    /\ xAxis = "A"
    /\ yAxis = "A"

\* Both axes are selected and name columns of the store
ValidSelection ==
    /\ uploadedData.loaded
    /\ xAxis # "" /\ yAxis # ""
    /\ \E i \in 1..Len(uploadedData.headers) : uploadedData.headers[i] = xAxis
    /\ \E i \in 1..Len(uploadedData.headers) : uploadedData.headers[i] = yAxis

\* The first column of the store named name, one entry per data row
ColumnNamed(name) ==
    LET c == CHOOSE i \in 1..Len(uploadedData.headers) :
                 /\ uploadedData.headers[i] = name
                 /\ \A j \in 1..(i - 1) : uploadedData.headers[j] # name
    IN  [r \in 1..Len(uploadedData.data) |->
            IF c <= Len(uploadedData.data[r]) THEN uploadedData.data[r][c] ELSE Undefined]

YColumnHasNumeric ==
    \E r \in 1..Len(uploadedData.data) : IsNumericY(ColumnNamed(yAxis)[r])

\* C7 (as claimed): with a valid selection the build fails with NoNumericData
\* exactly when the chart type is not pie and no Y value is numeric.
C7_AsClaimed ==
    ValidSelection =>
        (currentChart.exit = "NoNumericData") = (chartType # "pie" /\ ~YColumnHasNumeric)

\* C7 (amended): with a valid selection the build fails with NoNumericData, shows
\* its message and yields no trace, exactly when no Y value passes the numeric
\* test, for every chart type, pie included.
C7_NoNumericData ==
    ValidSelection =>
        /\ (currentChart.exit = "NoNumericData") = ~YColumnHasNumeric
        /\ currentChart.exit = "NoNumericData"
              => chartError = NoNumericMessage /\ currentChart.trace = NoTrace
        /\ currentChart.exit \in {"NoNumericData", "Ok"}

\* C7 witness: a pie chart on a Y column without a numeric value has failed.
C7_PieWithoutNumbers ==
    /\ ValidSelection
    /\ chartType = "pie"
    /\ ~YColumnHasNumeric
    /\ currentChart.exit = "NoNumericData"
    /\ chartError = NoNumericMessage

\* C8: every failure of the build shows a message: a build with an empty axis
\* name, with an axis name that is no column of the store, or with no numeric Y
\* value leaves an error message set.
C8_FailuresSurfaced ==
    uploadedData.loaded =>
        /\ (xAxis = "" \/ yAxis = "") => chartError # Null
        /\ currentChart.exit \in {"MissingAxis", "ColumnNotFound", "NoNumericData"}
              => chartError # Null

\* C9: the numeric test accepts a value exactly when it is a number, or a string
\* that is not empty and parses as a number; booleans, empty strings, null and
\* missing cells are not numeric.
C9_NumericTest ==
    ret # "none" =>
        (ret = "numeric") =
            \/ arg.t = "number"
            \/ arg.t = "string" /\ arg.s # <<>> /\ ~StringToNumberIsNaN(arg.s)

\* C10: a trace that is built carries the X column and the Y column of the store,
\* one entry per data row in row order: as labels and values, without x and y,
\* for pie, and as x and y for every other chart type.
C10_TraceCarriesColumns ==
    (uploadedData.loaded /\ currentChart.exit = "Ok") =>
        LET trace == currentChart.trace
        IN  IF chartType = "pie"
            THEN /\ trace.labels = ColumnNamed(xAxis)
                 /\ trace.values = ColumnNamed(yAxis)
                 /\ "x" \notin DOMAIN trace /\ "y" \notin DOMAIN trace
                 /\ Len(trace.labels) = Len(uploadedData.data)
            ELSE /\ trace.x = ColumnNamed(xAxis)
                 /\ trace.y = ColumnNamed(yAxis)
                 /\ Len(trace.x) = Len(uploadedData.data)
                 /\ Len(trace.y) = Len(uploadedData.data)

\* C10 witness: headers [Name, Sales], rows [[Alice, 10], [Bob, 20]], X = Name,
\* Y = Sales, bar: the trace has x = [Alice, Bob] and y = [10, 20].
C10_ScenarioA ==
    /\ uploadedData.headers = <<"Name", "Sales">>
    /\ uploadedData.data = <<<<Str(Alice), Num(10)>>, <<Str(Bob), Num(20)>>>>
    /\ xAxis = "Name" /\ yAxis = "Sales" /\ chartType = "bar"
    /\ currentChart.exit = "Ok"
    /\ currentChart.trace.x = <<Str(Alice), Str(Bob)>>
    /\ currentChart.trace.y = <<Num(10), Num(20)>>

\* C11 (as claimed): the layout has the title "Y vs X"; it carries the axis titles
\* X and Y for every chart type except pie, and for pie it carries no axis title.
C11_AsClaimed ==
    uploadedData.loaded =>
        /\ currentLayout.title.text = yAxis \o " vs " \o xAxis
        /\ chartType # "pie" =>
              /\ "xaxis" \in DOMAIN currentLayout /\ currentLayout.xaxis.title = xAxis
              /\ "yaxis" \in DOMAIN currentLayout /\ currentLayout.yaxis.title = yAxis
        /\ chartType = "pie" =>
              "xaxis" \notin DOMAIN currentLayout /\ "yaxis" \notin DOMAIN currentLayout

\* C11 (amended): the layout has the title "Y vs X" and carries the axis titles X
\* and Y for every chart type, pie included.
C11_LayoutTitles ==
    uploadedData.loaded =>
        /\ currentLayout.title.text = yAxis \o " vs " \o xAxis
        /\ "xaxis" \in DOMAIN currentLayout /\ currentLayout.xaxis.title = xAxis
        /\ "yaxis" \in DOMAIN currentLayout /\ currentLayout.yaxis.title = yAxis

\* C11 witness: a pie chart of Sales by Name is shown; its layout is titled
\* "Sales vs Name" and carries both axis titles.
C11_PieLayout ==
    /\ uploadedData.loaded
    /\ chartType = "pie"
    /\ currentChart.exit = "Ok"
    /\ xAxis = "Name" /\ yAxis = "Sales"
    /\ currentLayout.title.text = "Sales vs Name"
    /\ currentLayout.xaxis.title = "Name"
    /\ currentLayout.yaxis.title = "Sales"

\* Two characters that are the same letter, in either case
SameLetter(a, b) ==
    a = b \/ \E i \in 1..26 : {a, b} = {UpperCase[i], LowerCase[i]}

ContainsIgnoringCase(text, term) ==
    \E k \in 0..Len(text) :
        \A j \in 1..Len(term) : k + j <= Len(text) /\ SameLetter(text[k + j], term[j])

\* The search term is empty, or is contained in the text of a cell of the row
RowMatches(row) ==
    searchTerm = <<>> \/
    \E i \in 1..Len(row) : ContainsIgnoringCase(StringOf(row[i]), searchTerm)

\* C12: a row of the store is in the matched set exactly when the search term is
\* empty or the text of one of its cells contains the term, ignoring case; an
\* empty term matches every row; without a sort column the matched rows are in
\* the order of the store.
C12_SearchMatches ==
    uploadedData.loaded =>
        /\ \A r \in 1..Len(uploadedData.data) :
              (\E k \in 1..Len(filteredAndSortedData) :
                  filteredAndSortedData[k] = uploadedData.data[r])
                  = RowMatches(uploadedData.data[r])
        /\ Len(filteredAndSortedData) =
              Cardinality({r \in 1..Len(uploadedData.data) : RowMatches(uploadedData.data[r])})
        /\ searchTerm = <<>> => Len(filteredAndSortedData) = Len(uploadedData.data)
        /\ sortColumn = Null => filteredAndSortedData = SelectSeq(uploadedData.data, RowMatches)

\* C12 witness: the term "bob" on the rows [[Alice, 10], [Bob, 20]] matches the
\* row of Bob only.
C12_ScenarioE ==
    /\ uploadedData.data = <<<<Str(Alice), Num(10)>>, <<Str(Bob), Num(20)>>>>
    /\ searchTerm = <<"b", "o", "b">>
    /\ filteredAndSortedData = <<<<Str(Bob), Num(20)>>>>

\* The rows of rows whose value in column c is v, in their order in rows
WithValue(rows, c, v) == SelectSeq(rows, LAMBDA row : At(row, c) = v)

\* C13: with a sort column set, the rows shown whose values in the sort column are
\* equal are in the order they have in the store, and sorting the rows shown once
\* more by the same column and direction yields the same sequence; this for every
\* column, the columns that mix strings, numbers, booleans and empty cells included.
C13_StableIdempotent ==
    (uploadedData.loaded /\ Truthy(sortColumn)) =>
        LET c == IndexOf(uploadedData.headers, sortColumn)
            matched == SelectSeq(uploadedData.data, RowMatches)
        IN  /\ \A r \in 1..Len(matched) :
                  WithValue(filteredAndSortedData, c, At(matched[r], c))
                      = WithValue(matched, c, At(matched[r], c))
            /\ \A again \in SortOutcomes(filteredAndSortedData, c, sortDirection) :
                  again = filteredAndSortedData

\* C14: without show-all the rows shown are the first 10 rows of the matched and
\* sorted rows, all of them if they are fewer, and the preview says it is cut
\* exactly when more than 10 rows matched; with show-all the rows shown are all the
\* matched and sorted rows, and the preview does not say it is cut.
C14_Pagination ==
    uploadedData.loaded =>
        LET totalMatched == Len(filteredAndSortedData)
        IN  /\ ~showAllRows =>
                  /\ Len(previewRows) <= 10
                  /\ Len(previewRows) = IF totalMatched > 10 THEN 10 ELSE totalMatched
                  /\ \A i \in 1..Len(previewRows) : previewRows[i] = filteredAndSortedData[i]
                  /\ TruncationNotice = (totalMatched > 10)
            /\ showAllRows =>
                  /\ previewRows = filteredAndSortedData
                  /\ Len(previewRows) = totalMatched
                  /\ ~TruncationNotice

\* C14 witness: all rows of a store of more than 10 rows, sorted by Sales, are
\* shown after Show All.
C14_AllRowsShown ==
    /\ uploadedData.loaded
    /\ showAllRows
    /\ sortColumn = "Sales"
    /\ Len(previewRows) > 10
    /\ ~TruncationNotice

\* C15: no search, sort or show-all operation changes the active store: its
\* headers, its rows and the order of its rows stay as they are.
C15_StoreUntouched == [][uploadedData' = uploadedData]_vars

\* C15 witness: without a search term the rows are shown in an order, that of the
\* sort, that is not the order of the rows of the store.
C15_ShownInSortOrder ==
    /\ uploadedData.loaded
    /\ searchTerm = <<>>
    /\ Truthy(sortColumn)
    /\ filteredAndSortedData # uploadedData.data

\* C16: a sort request on the current sort column flips the direction and leaves
\* the sort column as it is; a sort request on any other column makes it the sort
\* column, ascending, whatever the direction was.
C16_SortRequest ==
    [][\A h \in HeaderNames :
          handleSort(h) =>
              IF sortColumn = h
              THEN /\ sortColumn' = sortColumn
                   /\ sortDirection = "asc" => sortDirection' = "desc"
                   /\ sortDirection = "desc" => sortDirection' = "asc"
              ELSE /\ sortColumn' = h
                   /\ sortDirection' = "asc"]_vars

\* C16 witness: a second request on the sort column Sales has made the direction
\* descending.
C16_FlippedToDescending ==
    /\ uploadedData.loaded
    /\ sortColumn = "Sales"
    /\ sortDirection = "desc"

\* C17 (as claimed): with a store active a new file submission is accepted (and
\* the store then stays active until the new decode succeeds).
C17_AsClaimed ==
    (uploadedData.loaded /\ timers < MaxTimers) => ENABLED (\E f \in Files : Submit(f))

\* C17 (amended): with a store active no file submission is accepted, and none is
\* being read: a submission is validated and decoded only while no store is
\* active, after a reset if there was one.
C17_NoSubmissionWhileReady ==
    /\ uploadedData.loaded => ~ENABLED (\E f \in Files : Submit(f))
    /\ uploadedData.loaded => ~isLoading /\ inFlight = <<>>
    /\ (isLoading \/ inFlight # <<>>) => uploadedData = NoData

\* C17 witness: after a first store was installed and reset, a second file is
\* being read, and no store is active.
C17_ReadingAfterReset ==
    /\ Len(uploadHistory) = 1
    /\ isLoading
    /\ Len(inFlight) = 1
    /\ uploadedData = NoData

\* No store, no axis selection and the view state of a new DataPreview
Cleared ==
    /\ uploadedData = NoData
    /\ currentFileName = ""
    /\ xAxis = "" /\ yAxis = ""
    /\ searchTerm = <<>> /\ sortColumn = Null /\ sortDirection = "asc" /\ ~showAllRows

\* The store is shown as a first store is: all its rows in store order, no search
\* term, no sort, no show-all, and the axes the automatic selection gives
StartsFresh ==
    /\ searchTerm = <<>> /\ sortColumn = Null /\ sortDirection = "asc" /\ ~showAllRows
    /\ filteredAndSortedData = uploadedData.data
    /\ IF Len(uploadedData.headers) >= 2
       THEN xAxis = uploadedData.headers[1] /\ yAxis = uploadedData.headers[2]
       ELSE xAxis = "" /\ yAxis = ""

\* C18: a reset with a store active leaves no store, no axis selection and no
\* search term, sort column or show-all, with the direction ascending; the store
\* that is installed next starts with none of the selection or view state of the
\* store before.
C18_ResetClears ==
    [][/\ (uploadedData.loaded /\ ~uploadedData'.loaded) => Cleared'
       /\ (~uploadedData.loaded /\ uploadedData'.loaded) => StartsFresh']_vars

\* C18 witness: a store of more than 10 rows and two columns was reset, and the
\* store of one column installed after it is shown unsearched and unsorted, with
\* no axis selected.
C18_SecondStoreFresh ==
    /\ Len(uploadHistory) = 2
    /\ uploadHistory[2].rowCount > 10
    /\ uploadedData.headers = <<"A">>
    /\ StartsFresh

\* One axis is set to a column of the store and the other axis is left as it is
ExplicitSelection ==
    \/ xAxis' # xAxis /\ xAxis' \in Range(uploadedData.headers) /\ yAxis' = yAxis
    \/ yAxis' # yAxis /\ yAxis' \in Range(uploadedData.headers) /\ xAxis' = xAxis

\* C19 (as claimed): while a store stays active the axis selection is changed only
\* by an explicit selection of one axis or by a reset, which leaves no axis
\* selected: the automatic selection does not run again.
C19_AsClaimed ==
    [][(uploadedData.loaded /\ uploadedData' = uploadedData) =>
          \/ xAxis' = xAxis /\ yAxis' = yAxis
          \/ ExplicitSelection
          \/ xAxis' = "" /\ yAxis' = ""]_vars

\* C19 (amended): the automatic selection runs whenever both axes are empty and
\* the store has two headers or more, so also after a chart reset: while a store
\* stays active the axis selection is changed only by an explicit selection of one
\* axis or by a chart reset, which leaves the first two headers selected, bar as
\* the chart type, and no axis selected only if the store has a single header.
C19_AutoSelectAfterReset ==
    [][(uploadedData.loaded /\ uploadedData' = uploadedData) =>
          /\ \/ xAxis' = xAxis /\ yAxis' = yAxis
             \/ ExplicitSelection
             \/ /\ chartType' = "bar"
                /\ IF Len(uploadedData.headers) >= 2
                   THEN xAxis' = uploadedData.headers[1] /\ yAxis' = uploadedData.headers[2]
                   ELSE xAxis' = "" /\ yAxis' = ""
          /\ Len(uploadedData.headers) >= 2 => ~(xAxis' = "" /\ yAxis' = "")]_vars

\* C19 witness: a workbook of the columns Name and Sales was uploaded, and the
\* automatic selection has made Name the X axis and Sales the Y axis.
C19_FirstTwoSelected ==
    /\ uploadedData.loaded
    /\ Len(uploadHistory) = 1
    /\ uploadedData.headers = <<"Name", "Sales">>
    /\ chartType = "bar"
    /\ xAxis = "Name" /\ yAxis = "Sales"

\* C20: the upload history holds at most 5 records: those of the most recent
\* uploads that succeeded, the most recent first (the uploads that succeeded are
\* numbered 1, 2, ... by the clock of the model); the first record is that of the
\* active store; uploads that fail and resets leave the history as it is.
C20_HistoryKeepsLastFive ==
    /\ Len(uploadHistory) <= 5
    /\ Len(uploadHistory) = IF now < 5 THEN now ELSE 5
    /\ \A i \in 1..Len(uploadHistory) : uploadHistory[i].id = now - i + 1
    /\ uploadedData.loaded =>
          /\ uploadHistory[1].rowCount = Len(uploadedData.data)
          /\ uploadHistory[1].columnCount = Len(uploadedData.headers)
          /\ uploadHistory[1].fileName = currentFileName

\* C20 witness: the sixth upload that succeeded has evicted the record of the
\* first: the history holds the records of the uploads 6 down to 2.
C20_SixthEvictsFirst ==
    /\ now = 6
    /\ Len(uploadHistory) = 5
    /\ uploadHistory[1].id = 6
    /\ uploadHistory[5].id = 2

\* C21: whenever the store, the axis selection and the chart type of the moment
\* build a trace, no chart error message is shown.
C21_ErrorReflectsInputs ==
    (uploadedData.loaded /\ currentChart.exit = "Ok") => chartError = Null

\* C22: the loading flag is set only while the read of a submitted file is
\* pending, and every submission ends: the loading flag becomes false again, on
\* success and on every failure, and the dropzone is then enabled for a new
\* submission; the processing flag of the Dashboard is false whenever the upload
\* callback has returned.
C22_SubmissionFinishes ==
    /\ [](isLoading => Len(inFlight) = 1)
    /\ [](~isProcessing)
    /\ isLoading ~> (~isLoading /\ inFlight = <<>> /\ ~DropzoneDisabled)

\* C22 witness: a submission has ended on an exception of the codec, with the
\* loading flag false and the message of the codec shown.
C22_EndedOnCodecError ==
    /\ failure = "CodecError"
    /\ file.codec = "throws"
    /\ ~isLoading
    /\ ~isProcessing
    /\ inFlight = <<>>
    /\ uploadError = LibraryMessage

\* C23: while a submission is in progress the upload progress never decreases,
\* whatever the callbacks that reset it to zero, scheduled when earlier
\* submissions ended, do in between.
C23_ProgressNeverDecreases ==
    [][(isLoading /\ isLoading') => uploadProgress' >= uploadProgress]_vars

====
